---- MODULE Spec2Model ----
(***************************************************************************)
(* Balance-forecast engine of src/lib/forecast.ts.                         *)
(*                                                                         *)
(* Instants are counted in minutes since 1970-01-01T00:00Z (the source     *)
(* counts milliseconds; every timestamp used here is a whole minute).      *)
(* An ISO-8601 timestamp string is the tuple <<year, month, day, hour,     *)
(* minute>>, an ISO date string the tuple <<year, month, day>>, a month    *)
(* identifier "YYYY-MM" the record [year, month] that split('-') and       *)
(* Number produce.  Amounts are whole currency units.                      *)
(***************************************************************************)
EXTENDS Integers, Sequences, FiniteSets, TLC

(***************************************************************************)
(* Calendar arithmetic of the JavaScript Date object (UTC).                *)
(***************************************************************************)

\* 24 * 60 * 60 * 1000 milliseconds, in minutes
DayLength == 24 * 60

\* days from 1970-01-01 to the first day of month index mi (0-based, may run
\* past 11: Date.UTC carries it into the year), plus day - 1
DaysFromCivil(year, mi, day) ==
    LET y0  == year + (mi \div 12)
        m   == (mi % 12) + 1
        y   == IF m <= 2 THEN y0 - 1 ELSE y0
        era == y \div 400
        yoe == y - era * 400
        mp  == (m + 9) % 12
        doy == (153 * mp + 2) \div 5 + day - 1
        doe == yoe * 365 + (yoe \div 4) - (yoe \div 100) + doy
    IN  era * 146097 + doe - 719468

\* Date.UTC(year, monthIndex, day, hour, minute)
DateUTC(year, mi, day, hour, minute) ==
    DaysFromCivil(year, mi, day) * DayLength + hour * 60 + minute

\* the calendar date <<year, month, day>> of a day number
CivilFromDays(z0) ==
    LET z   == z0 + 719468
        era == z \div 146097
        doe == z - era * 146097
        yoe == (doe - (doe \div 1460) + (doe \div 36524) - (doe \div 146096)) \div 365
        doy == doe - (365 * yoe + (yoe \div 4) - (yoe \div 100))
        mp  == (5 * doy + 2) \div 153
        d   == doy - ((153 * mp + 2) \div 5) + 1
        m   == IF mp < 10 THEN mp + 3 ELSE mp - 9
        y   == yoe + era * 400 + (IF m <= 2 THEN 1 ELSE 0)
    IN  <<y, m, d>>

\* Date.prototype.getUTCDay: 0 is Sunday (1970-01-01 was a Thursday)
getUTCDay(t) == ((t \div DayLength) + 4) % 7

\* new Date(timestamp).getTime() for a well-formed ISO timestamp
toUtcDate(timestamp) ==
    DateUTC(timestamp[1], timestamp[2] - 1, timestamp[3], timestamp[4], timestamp[5])

\* date.toISOString()
isoFields(ymd, rem) == <<ymd[1], ymd[2], ymd[3], rem \div 60, rem % 60>>

toIsoTimestamp(t) == isoFields(CivilFromDays(t \div DayLength), t % DayLength)

\* date.toISOString().slice(0, 10)
toIsoDate(t) == CivilFromDays(t \div DayLength)

startOfMonth(ym) == DateUTC(ym.year, ym.month - 1, 1, 0, 0)

monthEndExclusive(ym) == DateUTC(ym.year, ym.month, 1, 0, 0)

\* Number(part) of a part that is not a number, and the destructured part
\* that split('-') did not produce; split('-') never yields a negative number,
\* so negative values are free to stand for them
NaN == -1
Undefined == -2

\* !year || !month: the condition under which startOfMonth and
\* monthEndExclusive throw
invalidMonthIdentifier(ym) ==
    \/ ym.year \in {0, NaN, Undefined}
    \/ ym.month \in {0, NaN, Undefined}

NoWindow == [status |-> "none", error |-> "none", start |-> 0, end |-> 0]

\* const monthStart = startOfMonth(ym); const monthEnd = monthEndExclusive(ym):
\* the window of the identifier, or the error thrown
monthWindow(ym) ==
    IF invalidMonthIdentifier(ym)
    THEN [status |-> "threw", error |-> "Invalid month identifier", start |-> 0, end |-> 0]
    ELSE [status |-> "built", error |-> "none",
          start |-> startOfMonth(ym), end |-> monthEndExclusive(ym)]

(***************************************************************************)
(* Weekly partition of a month.                                            *)
(***************************************************************************)

\* weekWindowAt without the clip to the month boundary
weekWindowAtUnclipped(cursor, monthEnd) ==
    LET weekStart  == cursor
        dayOfWeek  == getUTCDay(weekStart)
        weekEnd0   == weekStart + (IF dayOfWeek = 0 THEN 0 ELSE 7 - dayOfWeek) * DayLength
        weekEnd    == IF weekEnd0 <= weekStart THEN weekEnd0 + 7 * DayLength ELSE weekEnd0
        exclusiveEnd == weekEnd + DayLength
    IN  [start |-> weekStart, end |-> exclusiveEnd, weekKey |-> toIsoDate(exclusiveEnd - DayLength)]

\* weekWindowAt that takes the Sunday itself as the exclusive end: no step
\* past a Sunday cursor, no extra day
weekWindowAtSundayStalls(cursor, monthEnd) ==
    LET weekStart  == cursor
        dayOfWeek  == getUTCDay(weekStart)
        weekEnd    == weekStart + (IF dayOfWeek = 0 THEN 0 ELSE 7 - dayOfWeek) * DayLength
        exclusiveEnd == IF weekEnd < monthEnd THEN weekEnd ELSE monthEnd
    IN  [start |-> weekStart, end |-> exclusiveEnd, weekKey |-> toIsoDate(exclusiveEnd - DayLength)]

\* one iteration of the while loop: the window that starts at the cursor
weekWindowAt(cursor, monthEnd) ==
    LET weekStart  == cursor
        dayOfWeek  == getUTCDay(weekStart)
        weekEnd0   == weekStart + (IF dayOfWeek = 0 THEN 0 ELSE 7 - dayOfWeek) * DayLength
        weekEnd    == IF weekEnd0 <= weekStart THEN weekEnd0 + 7 * DayLength ELSE weekEnd0
        exclusiveEnd == IF weekEnd + DayLength < monthEnd THEN weekEnd + DayLength ELSE monthEnd
    IN  [start |-> weekStart, end |-> exclusiveEnd, weekKey |-> toIsoDate(exclusiveEnd - DayLength)]

RECURSIVE weekWalk(_, _, _)
weekWalk(cursor, monthEnd, result) ==
    IF cursor < monthEnd
    THEN LET w == weekWindowAt(cursor, monthEnd)
         IN  weekWalk(w.end, monthEnd, Append(result, w))
    ELSE result

computeWeeksInMonth(ym) == weekWalk(startOfMonth(ym), monthEndExclusive(ym), <<>>)

(***************************************************************************)
(* Helpers: sorting, account discovery, window filters.                    *)
(***************************************************************************)

\* Array.prototype.sort with a numeric comparator: ascending by key, equal
\* keys keep their input order (the sort is stable)
SortByKey(items, keys) ==
    LET n == Len(items)
        rank(i) == 1 + Cardinality({j \in 1..n :
                        keys[j] < keys[i] \/ (keys[j] = keys[i] /\ j < i)})
    IN  [r \in 1..n |-> items[CHOOSE i \in 1..n : rank(i) = r]]

\* the order of "YYYY-MM" strings under the default (lexicographic) sort
monthSortKey(ym) == ym.year * 100 + ym.month

\* the order of "YYYY-MM-DD" strings under the default sort
dateSortKey(d) == d[1] * 10000 + d[2] * 100 + d[3]

\* [...months].sort()
sortMonths(months) ==
    SortByKey(months, [i \in 1..Len(months) |-> monthSortKey(months[i])])

\* Object.keys(record).sort(), for keys that are month identifiers
sortedMonthKeys(keys) ==
    LET n == Cardinality(keys)
    IN  [r \in 1..n |-> CHOOSE k \in keys :
            Cardinality({j \in keys : monthSortKey(j) < monthSortKey(k)}) = r - 1]

\* Object.keys(weekMap).sort(), for keys that are ISO dates
sortedWeekKeys(keys) ==
    LET n == Cardinality(keys)
    IN  [r \in 1..n |-> CHOOSE k \in keys :
            Cardinality({j \in keys : dateSortKey(j) < dateSortKey(k)}) = r - 1]

\* the account slugs in their sorted (lexicographic) order
AccountOrder == <<"operating", "profit">>

Range(seq) == {seq[i] : i \in 1..Len(seq)}

clonePriorBalances(source) == [k \in DOMAIN source |-> source[k]]

\* the object that holds the caller's priorEndingBalances
CallerRef == "caller"

\* cloneRef that hands back the caller's own object
cloneRefAliased(sourceRef) == sourceRef

\* the object clonePriorBalances returns: Object.fromEntries builds a new one
cloneRef(sourceRef) == "running"

\* the content of the caller's map once a pass has returned: the pass writes
\* its ending balances to the object that clonePriorBalances returned
callerMapAfter(priorEndingBalances, finalBalances) ==
    IF cloneRef(CallerRef) = CallerRef THEN finalBalances ELSE priorEndingBalances

\* listAccounts without the keys of the prior-balance map
listAccountsWithoutPrior(occurrences, checkpoints, priorEndingBalances) ==
    LET accounts == {occurrences[i].accountSlug : i \in 1..Len(occurrences)}
                    \cup {checkpoints[i].accountSlug : i \in 1..Len(checkpoints)}
    IN  SelectSeq(AccountOrder, LAMBDA a : a \in accounts)

listAccounts(occurrences, checkpoints, priorEndingBalances) ==
    LET accounts == {occurrences[i].accountSlug : i \in 1..Len(occurrences)}
                    \cup {checkpoints[i].accountSlug : i \in 1..Len(checkpoints)}
                    \cup DOMAIN priorEndingBalances
    IN  SelectSeq(AccountOrder, LAMBDA a : a \in accounts)

\* sortIsoStrings with an unstable sort: equal timestamps come out reversed
sortIsoStringsUnstable(items) ==
    LET n == Len(items)
        key(i) == toUtcDate(items[i].timestamp)
        rank(i) == 1 + Cardinality({j \in 1..n :
                        key(j) < key(i) \/ (key(j) = key(i) /\ j > i)})
    IN  [r \in 1..n |-> items[CHOOSE i \in 1..n : rank(i) = r]]

sortIsoStrings(items) ==
    SortByKey(items, [i \in 1..Len(items) |-> toUtcDate(items[i].timestamp)])

filterOccurrencesForWindow(occurrences, account, windowStart, windowEnd) ==
    SelectSeq(occurrences, LAMBDA occ :
        /\ occ.accountSlug = account
        /\ LET ts == toUtcDate(occ.timestamp)
           IN  ts >= windowStart /\ ts < windowEnd)

filterCheckpointsForWindow(checkpoints, account, windowStart, windowEnd) ==
    SelectSeq(checkpoints, LAMBDA cp :
        /\ cp.accountSlug = account
        /\ LET ts == toUtcDate(cp.timestamp)
           IN  ts >= windowStart /\ ts < windowEnd)

\* .reduce((sum, occ) => sum + occ.amount, 0)
RECURSIVE sumAmounts(_)
sumAmounts(occs) ==
    IF occs = <<>> THEN 0 ELSE occs[1].amount + sumAmounts(Tail(occs))

\* checkpointId of an anchor that has none (undefined)
NoCheckpointId == "undefined"

EmptyMap == [k \in {} |-> 0]

(***************************************************************************)
(* computeEndingBalances                                                   *)
(***************************************************************************)

\* monthAnchor with the interim flag also set for a checkpoint at the start
monthAnchorInterimAtStart(account, monthStart, accountCheckpoints, priorBalances) ==
    LET hadPriorBalance == account \in DOMAIN priorBalances
        priorBalance    == IF hadPriorBalance THEN priorBalances[account] ELSE 0
    IN  IF Len(accountCheckpoints) > 0
        THEN LET latestCheckpoint == accountCheckpoints[Len(accountCheckpoints)]
             IN  [balance      |-> latestCheckpoint.balance,
                  timestamp    |-> latestCheckpoint.timestamp,
                  source       |-> "checkpoint",
                  checkpointId |-> latestCheckpoint.id,
                  isInterim    |-> toUtcDate(latestCheckpoint.timestamp) >= monthStart]
        ELSE [balance      |-> priorBalance,
              timestamp    |-> toIsoTimestamp(monthStart),
              source       |-> IF hadPriorBalance THEN "rollforward" ELSE "initial",
              checkpointId |-> NoCheckpointId,
              isInterim    |-> FALSE]

\* the anchor of one account in the month window
monthAnchor(account, monthStart, accountCheckpoints, priorBalances) ==
    LET hadPriorBalance == account \in DOMAIN priorBalances
        priorBalance    == IF hadPriorBalance THEN priorBalances[account] ELSE 0
    IN  IF Len(accountCheckpoints) > 0
        THEN LET latestCheckpoint == accountCheckpoints[Len(accountCheckpoints)]
             IN  [balance      |-> latestCheckpoint.balance,
                  timestamp    |-> latestCheckpoint.timestamp,
                  source       |-> "checkpoint",
                  checkpointId |-> latestCheckpoint.id,
                  isInterim    |-> toUtcDate(latestCheckpoint.timestamp) > monthStart]
        ELSE [balance      |-> priorBalance,
              timestamp    |-> toIsoTimestamp(monthStart),
              source       |-> IF hadPriorBalance THEN "rollforward" ELSE "initial",
              checkpointId |-> NoCheckpointId,
              isInterim    |-> FALSE]

\* monthNetAfterAnchor without the filter on the anchor instant
monthNetAfterAnchorWholeWindow(accountOccurrences, anchor) ==
    sumAmounts(accountOccurrences)

\* monthNetAfterAnchor that also counts an occurrence at a checkpoint's instant
monthNetAfterAnchorCountsAnchorInstant(accountOccurrences, anchor) ==
    LET anchorTime == toUtcDate(anchor.timestamp)
    IN  sumAmounts(SelectSeq(accountOccurrences, LAMBDA occ :
            ~(toUtcDate(occ.timestamp) < anchorTime)))

\* the sum of the occurrences kept by the filter on the anchor instant
monthNetAfterAnchor(accountOccurrences, anchor) ==
    LET anchorTime == toUtcDate(anchor.timestamp)
    IN  sumAmounts(SelectSeq(accountOccurrences, LAMBDA occ :
            LET occTime == toUtcDate(occ.timestamp)
            IN  /\ ~(occTime < anchorTime)
                /\ ~(anchor.source = "checkpoint" /\ occTime = anchorTime)))

\* the cell built from the anchor and the net activity after it
monthCellOf(ym, account, anchor, netAfterAnchor) ==
    [ym               |-> ym,
     accountSlug      |-> account,
     beginningBalance |-> anchor.balance,
     balance          |-> anchor.balance + netAfterAnchor,
     netAfterAnchor   |-> netAfterAnchor,
     anchor           |-> anchor]

\* the cell of one account, given its occurrences and its sorted checkpoints
\* of the month
monthCellFrom(ym, account, monthStart, accountOccurrences, accountCheckpoints, priorBalances) ==
    LET anchor == monthAnchor(account, monthStart, accountCheckpoints, priorBalances)
    IN  monthCellOf(ym, account, anchor, monthNetAfterAnchor(accountOccurrences, anchor))

\* the cell of one account in the window [monthStart, monthEnd)
monthCellIn(ym, account, monthStart, monthEnd, occurrences, checkpoints, priorBalances) ==
    monthCellFrom(ym, account, monthStart,
        filterOccurrencesForWindow(occurrences, account, monthStart, monthEnd),
        sortIsoStrings(filterCheckpointsForWindow(checkpoints, account, monthStart, monthEnd)),
        priorBalances)

\* the body of the account loop: the cell of one account in one month
monthCell(ym, account, occurrences, checkpoints, priorBalances) ==
    monthCellIn(ym, account, startOfMonth(ym), monthEndExclusive(ym),
                occurrences, checkpoints, priorBalances)

\* writeBack that leaves the running balances as they were
writeBackDropped(priorBalances, cells) == priorBalances

\* priorBalances[account] = endingBalance, for every account of the cells
writeBack(priorBalances, cells) ==
    [a \in DOMAIN priorBalances \cup DOMAIN cells |->
        IF a \in DOMAIN cells THEN cells[a].balance ELSE priorBalances[a]]

\* monthlyResult[ym] = monthCells
putKey(result, key, value) ==
    [k \in DOMAIN result \cup {key} |-> IF k = key THEN value ELSE result[k]]

\* the loop over orderedMonths from index i on; returns the cells and the
\* running balances it ends with
RECURSIVE monthLoop(_, _, _, _, _, _, _)
monthLoop(orderedMonths, i, accounts, occurrences, checkpoints, priorBalances, monthlyResult) ==
    IF i > Len(orderedMonths)
    THEN [result |-> monthlyResult, priorBalances |-> priorBalances]
    ELSE LET ym == orderedMonths[i]
             monthCells == [a \in Range(accounts) |->
                               monthCell(ym, a, occurrences, checkpoints, priorBalances)]
         IN  monthLoop(orderedMonths, i + 1, accounts, occurrences, checkpoints,
                       writeBack(priorBalances, monthCells),
                       putKey(monthlyResult, ym, monthCells))

endingBalancesRun(months, occurrences, priorEndingBalances, checkpoints) ==
    monthLoop(sortMonths(months), 1,
              listAccounts(occurrences, checkpoints, priorEndingBalances),
              occurrences, checkpoints,
              clonePriorBalances(priorEndingBalances), EmptyMap)

computeEndingBalances(months, occurrences, priorEndingBalances, checkpoints) ==
    endingBalancesRun(months, occurrences, priorEndingBalances, checkpoints).result

(***************************************************************************)
(* computeWeeklyBalances                                                   *)
(***************************************************************************)

\* weekAnchor that never reports the source 'initial'
weekAnchorNeverInitial(account, weekStart, accountCheckpoints, priorBalances) ==
    LET hadPriorBalance == account \in DOMAIN priorBalances
        priorBalance    == IF hadPriorBalance THEN priorBalances[account] ELSE 0
    IN  IF Len(accountCheckpoints) > 0
        THEN LET latestCheckpoint == accountCheckpoints[Len(accountCheckpoints)]
             IN  [balance      |-> latestCheckpoint.balance,
                  timestamp    |-> latestCheckpoint.timestamp,
                  source       |-> "checkpoint",
                  checkpointId |-> latestCheckpoint.id,
                  isInterim    |-> toUtcDate(latestCheckpoint.timestamp) > weekStart]
        ELSE [balance      |-> priorBalance,
              timestamp    |-> toIsoTimestamp(weekStart),
              source       |-> "rollforward",
              checkpointId |-> NoCheckpointId,
              isInterim    |-> FALSE]

\* the anchor of one account in the week window
weekAnchor(account, weekStart, accountCheckpoints, priorBalances) ==
    LET hadPriorBalance == account \in DOMAIN priorBalances
        priorBalance    == IF hadPriorBalance THEN priorBalances[account] ELSE 0
    IN  IF Len(accountCheckpoints) > 0
        THEN LET latestCheckpoint == accountCheckpoints[Len(accountCheckpoints)]
             IN  [balance      |-> latestCheckpoint.balance,
                  timestamp    |-> latestCheckpoint.timestamp,
                  source       |-> "checkpoint",
                  checkpointId |-> latestCheckpoint.id,
                  isInterim    |-> toUtcDate(latestCheckpoint.timestamp) > weekStart]
        ELSE [balance      |-> priorBalance,
              timestamp    |-> toIsoTimestamp(weekStart),
              source       |-> IF hadPriorBalance THEN "rollforward" ELSE "initial",
              checkpointId |-> NoCheckpointId,
              isInterim    |-> FALSE]

\* weekNetAfterAnchor that also counts an occurrence at a checkpoint's instant
weekNetAfterAnchorCountsAnchorInstant(accountOccurrences, anchor) ==
    LET anchorTime == toUtcDate(anchor.timestamp)
    IN  sumAmounts(SelectSeq(accountOccurrences, LAMBDA occ :
            ~(toUtcDate(occ.timestamp) < anchorTime)))

weekNetAfterAnchor(accountOccurrences, anchor) ==
    LET anchorTime == toUtcDate(anchor.timestamp)
    IN  sumAmounts(SelectSeq(accountOccurrences, LAMBDA occ :
            LET occTime == toUtcDate(occ.timestamp)
            IN  /\ ~(occTime < anchorTime)
                /\ ~(anchor.source = "checkpoint" /\ occTime = anchorTime)))

\* the cell built from the anchor and the net activity after it
weekCellOf(ym, weekKey, account, anchor, netAfterAnchor) ==
    [ym               |-> ym,
     accountSlug      |-> account,
     weekKey          |-> weekKey,
     beginningBalance |-> anchor.balance,
     balance          |-> anchor.balance + netAfterAnchor,
     netAfterAnchor   |-> netAfterAnchor,
     anchor           |-> anchor]

\* the cell of one account, given its occurrences and its sorted checkpoints
\* of the week
weekCellFrom(ym, week, account, accountOccurrences, accountCheckpoints, priorBalances) ==
    LET anchor == weekAnchor(account, week.start, accountCheckpoints, priorBalances)
    IN  weekCellOf(ym, week.weekKey, account, anchor,
                   weekNetAfterAnchor(accountOccurrences, anchor))

\* the body of the account loop: the cell of one account in one week
weekCell(ym, week, account, occurrences, checkpoints, priorBalances) ==
    weekCellFrom(ym, week, account,
        filterOccurrencesForWindow(occurrences, account, week.start, week.end),
        sortIsoStrings(filterCheckpointsForWindow(checkpoints, account, week.start, week.end)),
        priorBalances)

\* the loop over the weeks of one month from index w on
RECURSIVE weekLoop(_, _, _, _, _, _, _, _)
weekLoop(ym, weeks, w, accounts, occurrences, checkpoints, priorBalances, monthWeeks) ==
    IF w > Len(weeks)
    THEN [result |-> monthWeeks, priorBalances |-> priorBalances]
    ELSE LET week == weeks[w]
             weekCells == [a \in Range(accounts) |->
                              weekCell(ym, week, a, occurrences, checkpoints, priorBalances)]
         IN  weekLoop(ym, weeks, w + 1, accounts, occurrences, checkpoints,
                      writeBack(priorBalances, weekCells),
                      putKey(monthWeeks, week.weekKey, weekCells))

\* the loop over orderedMonths from index i on
RECURSIVE weeklyMonthLoop(_, _, _, _, _, _, _)
weeklyMonthLoop(orderedMonths, i, accounts, occurrences, checkpoints, priorBalances, weeklyResult) ==
    IF i > Len(orderedMonths)
    THEN [result |-> weeklyResult, priorBalances |-> priorBalances]
    ELSE LET ym == orderedMonths[i]
             m  == weekLoop(ym, computeWeeksInMonth(ym), 1, accounts, occurrences,
                            checkpoints, priorBalances, EmptyMap)
         IN  weeklyMonthLoop(orderedMonths, i + 1, accounts, occurrences, checkpoints,
                             m.priorBalances, putKey(weeklyResult, ym, m.result))

weeklyBalancesRun(months, occurrences, priorEndingBalances, checkpoints) ==
    weeklyMonthLoop(sortMonths(months), 1,
                    listAccounts(occurrences, checkpoints, priorEndingBalances),
                    occurrences, checkpoints,
                    clonePriorBalances(priorEndingBalances), EmptyMap)

computeWeeklyBalances(months, occurrences, priorEndingBalances, checkpoints) ==
    weeklyBalancesRun(months, occurrences, priorEndingBalances, checkpoints).result

(***************************************************************************)
(* The continuity verifier and buildForecast.                              *)
(***************************************************************************)

Abs(x) == IF x < 0 THEN 0 - x ELSE x

\* 1 / tolerance, for the default tolerance = 0.01
ToleranceInverse == 100

\* Math.abs(a - b) <= tolerance
almostEqual(a, b) == Abs(a - b) * ToleranceInverse <= 1

NoError == "none"

\* breaksRollForward that lets a checkpoint-anchored cell override
breaksRollForwardExceptCheckpoint(cells, lastEnding) ==
    \E account \in DOMAIN cells :
        /\ account \in DOMAIN lastEnding
        /\ cells[account].anchor.source # "checkpoint"
        /\ ~almostEqual(cells[account].beginningBalance, lastEnding[account])

\* some cell of the map breaks continuity with lastEnding
breaksRollForward(cells, lastEnding) ==
    \E account \in DOMAIN cells :
        /\ account \in DOMAIN lastEnding
        /\ ~almostEqual(cells[account].beginningBalance, lastEnding[account])

\* the walk over the sorted months from index i on; the error thrown, if any
RECURSIVE monthlyAssertWalk(_, _, _, _)
monthlyAssertWalk(endingBalances, orderedMonths, i, lastEnding) ==
    IF i > Len(orderedMonths) THEN NoError
    ELSE LET monthCells == endingBalances[orderedMonths[i]]
         IN  IF breaksRollForward(monthCells, lastEnding)
             THEN "Monthly roll-forward violation"
             ELSE monthlyAssertWalk(endingBalances, orderedMonths, i + 1,
                                    writeBack(lastEnding, monthCells))

assertBalanceRollForward(endingBalances) ==
    monthlyAssertWalk(endingBalances, sortedMonthKeys(DOMAIN endingBalances), 1, EmptyMap)

\* the walk over the sorted week keys of one month from index w on
RECURSIVE weekAssertWalk(_, _, _, _)
weekAssertWalk(weekMap, weekKeys, w, lastEnding) ==
    IF w > Len(weekKeys) THEN [error |-> NoError, lastEnding |-> lastEnding]
    ELSE LET weekCells == weekMap[weekKeys[w]]
         IN  IF breaksRollForward(weekCells, lastEnding)
             THEN [error |-> "Weekly roll-forward violation", lastEnding |-> lastEnding]
             ELSE weekAssertWalk(weekMap, weekKeys, w + 1, writeBack(lastEnding, weekCells))

\* the month's last weekly cell of some account differs from its monthly cell
weeklyMonthlyMismatch(weekMap, weekKeys, monthEndingCells) ==
    \E account \in DOMAIN monthEndingCells :
        /\ Len(weekKeys) > 0
        /\ account \in DOMAIN weekMap[weekKeys[Len(weekKeys)]]
        /\ ~almostEqual(weekMap[weekKeys[Len(weekKeys)]][account].balance,
                        monthEndingCells[account].balance)

RECURSIVE weeklyAssertWalk(_, _, _, _, _)
weeklyAssertWalk(weeklyBalances, endingBalances, orderedMonths, i, lastEnding) ==
    IF i > Len(orderedMonths) THEN NoError
    ELSE LET ym       == orderedMonths[i]
             weekMap  == weeklyBalances[ym]
             weekKeys == sortedWeekKeys(DOMAIN weekMap)
             walked   == weekAssertWalk(weekMap, weekKeys, 1, lastEnding)
             monthEndingCells == IF ym \in DOMAIN endingBalances
                                 THEN endingBalances[ym] ELSE EmptyMap
         IN  IF walked.error # NoError THEN walked.error
             ELSE IF weeklyMonthlyMismatch(weekMap, weekKeys, monthEndingCells)
                  THEN "Weekly/monthly mismatch"
                  ELSE weeklyAssertWalk(weeklyBalances, endingBalances, orderedMonths,
                                        i + 1, walked.lastEnding)

assertWeeklyBalanceRollForward(weeklyBalances, endingBalances) ==
    weeklyAssertWalk(weeklyBalances, endingBalances,
                     sortedMonthKeys(DOMAIN weeklyBalances), 1, EmptyMap)

\* the ForecastResult, or the error thrown by the first failing assertion
forecastOutcome(orderedMonths, accounts, endingBalances, weeklyBalances, monthlyError, weeklyError) ==
    IF monthlyError # NoError
    THEN [status |-> "threw", error |-> monthlyError, months |-> <<>>,
          accounts |-> <<>>, endingBalances |-> EmptyMap, weeklyBalances |-> EmptyMap]
    ELSE IF weeklyError # NoError
    THEN [status |-> "threw", error |-> weeklyError, months |-> <<>>,
          accounts |-> <<>>, endingBalances |-> EmptyMap, weeklyBalances |-> EmptyMap]
    ELSE [status |-> "returned", error |-> NoError, months |-> orderedMonths,
          accounts |-> accounts, endingBalances |-> endingBalances,
          weeklyBalances |-> weeklyBalances]

\* the two assertions on the computed cells
verifiedForecast(orderedMonths, accounts, endingBalances, weeklyBalances) ==
    forecastOutcome(orderedMonths, accounts, endingBalances, weeklyBalances,
                    assertBalanceRollForward(endingBalances),
                    assertWeeklyBalanceRollForward(weeklyBalances, endingBalances))

\* the caller's map after computeEndingBalances
priorAfterMonthly(months, p) ==
    callerMapAfter(p.priorEndingBalances,
        endingBalancesRun(months, p.occurrences, p.priorEndingBalances,
                          p.checkpoints).priorBalances)

\* the caller's map, holding prior, after computeWeeklyBalances
priorAfterWeekly(months, p, prior) ==
    callerMapAfter(prior,
        weeklyBalancesRun(months, p.occurrences, prior, p.checkpoints).priorBalances)

\* both passes over the sorted months, each from the caller's map as it is
\* when the pass is called
forecastOf(orderedMonths, p) ==
    verifiedForecast(orderedMonths,
        listAccounts(p.occurrences, p.checkpoints, p.priorEndingBalances),
        computeEndingBalances(orderedMonths, p.occurrences, p.priorEndingBalances,
                              p.checkpoints),
        computeWeeklyBalances(orderedMonths, p.occurrences,
                              priorAfterMonthly(orderedMonths, p), p.checkpoints))

buildForecast(p) == forecastOf(sortMonths(p.months), p)

\* the caller's map after buildForecast: untouched when the passes write to
\* an object of their own; otherwise written by the monthly pass, and by the
\* weekly pass when the monthly assertion has not thrown
priorAfterBuild(orderedMonths, p) ==
    IF cloneRef(CallerRef) # CallerRef
    THEN p.priorEndingBalances
    ELSE IF assertBalanceRollForward(
                computeEndingBalances(orderedMonths, p.occurrences,
                                      p.priorEndingBalances, p.checkpoints)) # NoError
         THEN priorAfterMonthly(orderedMonths, p)
         ELSE priorAfterWeekly(orderedMonths, p, priorAfterMonthly(orderedMonths, p))

(***************************************************************************)
(* Inputs.                                                                 *)
(***************************************************************************)

\* occurrences and checkpoints of an enumerated input, together
MaxItems == 2

Jan == [year |-> 2025, month |-> 1]
Feb == [year |-> 2025, month |-> 2]

\* sorted, unsorted, single, and with a repeated identifier
MonthLists == {<<Jan, Feb>>, <<Feb, Jan>>, <<Jan>>, <<Jan, Feb, Feb>>}

\* start of January and of its first week; inside that week; start of the
\* second week; start of February (the exclusive end of January)
InstantChoices ==
    {<<2025, 1, 1, 0, 0>>, <<2025, 1, 3, 10, 0>>, <<2025, 1, 6, 0, 0>>, <<2025, 2, 1, 0, 0>>}

AmountAt(t) ==
    CASE t = <<2025, 1, 1, 0, 0>>  -> 450
      [] t = <<2025, 1, 3, 10, 0>> -> -180
      [] t = <<2025, 1, 6, 0, 0>>  -> -220
      [] OTHER                     -> 375

OccurrenceChoices ==
    {[accountSlug |-> a, amount |-> AmountAt(t), timestamp |-> t] :
        a \in Range(AccountOrder), t \in InstantChoices}

CheckpointIds == <<"cp-1", "cp-2", "cp-3", "cp-4">>
\* the first one equals the prior balance of "operating": a checkpoint that
\* confirms the rolled-forward balance
CheckpointBalances == <<1250, 430, 900, 75>>

\* the checkpoint at position n of the list, for account a at instant t
CheckpointAt(n, a, t) ==
    [id |-> CheckpointIds[n], accountSlug |-> a, balance |-> CheckpointBalances[n],
     timestamp |-> t]

PriorChoices == {EmptyMap, [a \in {"operating"} |-> 1250]}

OccurrenceLists(n) == [1..n -> OccurrenceChoices]

CheckpointLists(n) ==
    {[k \in 1..n |-> CheckpointAt(k, sel[k][1], sel[k][2])] :
        sel \in [1..n -> Range(AccountOrder) \X InstantChoices]}

ItemCounts == {c \in (0..MaxItems) \X (0..MaxItems) : c[1] + c[2] <= MaxItems}

\* the dashboard's sample input
sampleParams ==
    [months |-> <<Jan, Feb>>,
     priorEndingBalances |-> [a \in {"operating", "profit"} |->
                                 IF a = "operating" THEN 1250 ELSE 300],
     occurrences |-> <<
        [accountSlug |-> "operating", amount |-> 450,  timestamp |-> <<2025, 1, 3, 10, 0>>],
        [accountSlug |-> "operating", amount |-> -180, timestamp |-> <<2025, 1, 7, 18, 30>>],
        [accountSlug |-> "operating", amount |-> -220, timestamp |-> <<2025, 1, 20, 15, 45>>],
        [accountSlug |-> "operating", amount |-> 375,  timestamp |-> <<2025, 2, 4, 9, 5>>],
        [accountSlug |-> "operating", amount |-> -120, timestamp |-> <<2025, 2, 12, 12, 0>>],
        [accountSlug |-> "operating", amount |-> -315, timestamp |-> <<2025, 2, 21, 13, 15>>],
        [accountSlug |-> "profit", amount |-> 75,  timestamp |-> <<2025, 1, 10, 11, 0>>],
        [accountSlug |-> "profit", amount |-> -50, timestamp |-> <<2025, 1, 25, 8, 0>>],
        [accountSlug |-> "profit", amount |-> 80,  timestamp |-> <<2025, 2, 8, 16, 0>>] >>,
     checkpoints |-> <<
        [id |-> "cp-operating-jan", accountSlug |-> "operating", balance |-> 1480,
         timestamp |-> <<2025, 1, 17, 14, 0>>],
        [id |-> "cp-profit-feb", accountSlug |-> "profit", balance |-> 430,
         timestamp |-> <<2025, 2, 18, 13, 30>>] >>]

\* the months whose weekly partition is walked: every month of twelve years
YearChoices == 2020..2031
MonthChoices == {[year |-> y, month |-> m] : y \in YearChoices, m \in 1..12}

(***************************************************************************)
(* The state machine.  A caller holding one input calls the three exported *)
(* functions in turn (Spec); the weekly walk of one month runs one loop    *)
(* iteration at a time (WeeksSpec).                                        *)
(***************************************************************************)

VARIABLES params, pc, endingBalances, weeklyBalances, forecast,
          weekYm, cursor, weeks, window

callVars == <<params, pc, endingBalances, weeklyBalances, forecast>>
walkVars == <<weekYm, cursor, weeks, window>>
vars == <<params, pc, endingBalances, weeklyBalances, forecast, weekYm, cursor, weeks, window>>

NotCalled == [status |-> "pending", error |-> NoError, months |-> <<>>,
              accounts |-> <<>>, endingBalances |-> EmptyMap, weeklyBalances |-> EmptyMap]

EnumeratedInit ==
    \E c \in ItemCounts, m \in MonthLists, pr \in PriorChoices :
        \E o \in OccurrenceLists(c[1]), cps \in CheckpointLists(c[2]) :
            params = [months |-> m, occurrences |-> o, priorEndingBalances |-> pr,
                      checkpoints |-> cps]

\* no call made yet
CallsIdle ==
    /\ endingBalances = EmptyMap
    /\ weeklyBalances = EmptyMap
    /\ forecast = NotCalled

\* the walk of month ym before its first iteration
WalkAtStart(ym) ==
    /\ weekYm = ym
    /\ cursor = startOfMonth(ym)
    /\ weeks = <<>>
    /\ window = NoWindow

Init ==
    /\ \/ params = sampleParams
       \/ EnumeratedInit
    /\ pc = "ready"
    /\ CallsIdle
    /\ WalkAtStart(Jan)

CallComputeEndingBalances ==
    /\ pc = "ready"
    /\ endingBalances' = computeEndingBalances(params.months, params.occurrences,
                             params.priorEndingBalances, params.checkpoints)
    /\ params' = [params EXCEPT !.priorEndingBalances = priorAfterMonthly(params.months, params)]
    /\ pc' = "monthly"
    /\ UNCHANGED <<weeklyBalances, forecast>>
    /\ UNCHANGED walkVars

CallComputeWeeklyBalances ==
    /\ pc = "monthly"
    /\ weeklyBalances' = computeWeeklyBalances(params.months, params.occurrences,
                             params.priorEndingBalances, params.checkpoints)
    /\ params' = [params EXCEPT !.priorEndingBalances =
                      priorAfterWeekly(params.months, params, params.priorEndingBalances)]
    /\ pc' = "weekly"
    /\ UNCHANGED <<endingBalances, forecast>>
    /\ UNCHANGED walkVars

CallBuildForecast ==
    /\ pc = "weekly"
    /\ forecast' = buildForecast(params)
    /\ params' = [params EXCEPT !.priorEndingBalances =
                      priorAfterBuild(sortMonths(params.months), params)]
    /\ pc' = "done"
    /\ UNCHANGED <<endingBalances, weeklyBalances>>
    /\ UNCHANGED walkVars

Next ==
    \/ CallComputeEndingBalances
    \/ CallComputeWeeklyBalances
    \/ CallBuildForecast

Spec == Init /\ [][Next]_vars

\* a caller that runs the two passes only
PassesNext ==
    \/ CallComputeEndingBalances
    \/ CallComputeWeeklyBalances

PassesSpec == Init /\ [][PassesNext]_vars

\* computeWeeksInMonth(weekYm), one iteration of its while loop per step
WeeksInit ==
    /\ params = sampleParams
    /\ pc = "walk"
    /\ CallsIdle
    /\ \E ym \in MonthChoices : WalkAtStart(ym)

WeekStep ==
    /\ pc = "walk"
    /\ cursor < monthEndExclusive(weekYm)
    /\ LET w == weekWindowAt(cursor, monthEndExclusive(weekYm))
       IN  /\ weeks' = Append(weeks, w)
           /\ cursor' = w.end
    /\ UNCHANGED <<weekYm, window>>
    /\ UNCHANGED callVars

WeeksNext == WeekStep

WeeksSpec == WeeksInit /\ [][WeeksNext]_vars

\* the walk is a sequential loop: an iteration that can run does run
WeeksLiveSpec == WeeksSpec /\ WF_vars(WeekStep)

\* the loop condition is false: computeWeeksInMonth returns weeks
WalkDone == pc = "walk" /\ ~(cursor < monthEndExclusive(weekYm))

\* the identifiers whose window is built: Number of each part of the split
\* string, well-formed or not
IdentifierYears == {NaN, 0} \cup YearChoices
IdentifierMonths == {NaN, Undefined} \cup (0..14)
IdentifierChoices == {[year |-> y, month |-> m] : y \in IdentifierYears, m \in IdentifierMonths}

\* the window of one month identifier is built, as the month loops do
PeriodInit ==
    /\ params = sampleParams
    /\ pc = "period"
    /\ CallsIdle
    /\ \E ym \in IdentifierChoices :
          /\ weekYm = ym
          /\ cursor = 0
          /\ weeks = <<>>
          /\ window = NoWindow

BuildWindow ==
    /\ pc = "period"
    /\ window' = monthWindow(weekYm)
    /\ pc' = "windowed"
    /\ UNCHANGED <<params, endingBalances, weeklyBalances, forecast>>
    /\ UNCHANGED <<weekYm, cursor, weeks>>

PeriodNext == BuildWindow

PeriodSpec == PeriodInit /\ [][PeriodNext]_vars

(***************************************************************************)
(* Views of the produced cells used by the properties: each cell with the  *)
(* window it was computed for.                                             *)
(***************************************************************************)

CellView(kind, cell, start, end) ==
    [kind |-> kind, ym |-> cell.ym, account |-> cell.accountSlug,
     beginningBalance |-> cell.beginningBalance, balance |-> cell.balance,
     netAfterAnchor |-> cell.netAfterAnchor, anchor |-> cell.anchor,
     start |-> start, end |-> end]

MonthlyViews(eb) ==
    UNION {{CellView("month", eb[ym][a], startOfMonth(ym), monthEndExclusive(ym)) :
              a \in DOMAIN eb[ym]} : ym \in DOMAIN eb}

\* the window of the week with key weekKey among the windows ws
WeekOf(ws, weekKey) == ws[CHOOSE i \in 1..Len(ws) : ws[i].weekKey = weekKey]

WeeklyViews(wb) ==
    UNION {LET ws == computeWeeksInMonth(ym)
           IN  UNION {LET w == WeekOf(ws, wk)
                      IN  {CellView("week", wb[ym][wk][a], w.start, w.end) :
                              a \in DOMAIN wb[ym][wk]} : wk \in DOMAIN wb[ym]} :
           ym \in DOMAIN wb}

CellViews == MonthlyViews(endingBalances) \cup WeeklyViews(weeklyBalances)

\* v2 is the window processed next after v1 for the same account
Adjacent(views, v1, v2) ==
    /\ v1.kind = v2.kind
    /\ v1.account = v2.account
    /\ v1.start < v2.start
    /\ ~\E v3 \in views : /\ v3.kind = v1.kind
                          /\ v3.account = v1.account
                          /\ v1.start < v3.start
                          /\ v3.start < v2.start

\* the last weekly cell of a month: the one with the greatest week key
LastWeekKey(weekMap) ==
    CHOOSE k \in DOMAIN weekMap :
        \A j \in DOMAIN weekMap : dateSortKey(j) <= dateSortKey(k)

MonthSet == Range(params.months)

NoRepeatedMonth == Cardinality(MonthSet) = Len(params.months)

\* the checkpoints (by position) of the account that fall in [start, end)
CheckpointsIn(v) ==
    {i \in 1..Len(params.checkpoints) :
        /\ params.checkpoints[i].accountSlug = v.account
        /\ toUtcDate(params.checkpoints[i].timestamp) >= v.start
        /\ toUtcDate(params.checkpoints[i].timestamp) < v.end}

RECURSIVE SumOfOccurrences(_)
SumOfOccurrences(S) ==
    IF S = {} THEN 0
    ELSE LET i == CHOOSE j \in S : TRUE
         IN  params.occurrences[i].amount + SumOfOccurrences(S \ {i})

(***************************************************************************)
(* Properties.                                                             *)
(***************************************************************************)

\* C1: once both passes have run, every processed month and every account has
\* a monthly cell and weekly cells, and the ending balance of the month's last
\* weekly cell equals the ending balance of its monthly cell.
C1_WeeklyReconcilesWithMonthly ==
    pc \in {"weekly", "done"} =>
        /\ DOMAIN endingBalances = MonthSet
        /\ DOMAIN weeklyBalances = MonthSet
        /\ \A ym \in MonthSet :
              /\ DOMAIN weeklyBalances[ym] # {}
              /\ \A a \in DOMAIN endingBalances[ym] :
                    LET last == weeklyBalances[ym][LastWeekKey(weeklyBalances[ym])]
                    IN  /\ a \in DOMAIN last
                        /\ last[a].balance = endingBalances[ym][a].balance

\* C1 witness: a month anchored on a mid-month checkpoint with activity after
\* it, whose last week is a roll-forward week.
C1_Witness ==
    /\ pc = "weekly"
    /\ \E ym \in MonthSet : \E a \in DOMAIN endingBalances[ym] :
          /\ endingBalances[ym][a].anchor.source = "checkpoint"
          /\ endingBalances[ym][a].anchor.isInterim
          /\ endingBalances[ym][a].netAfterAnchor # 0
          /\ weeklyBalances[ym][LastWeekKey(weeklyBalances[ym])][a].anchor.source = "rollforward"

\* C2: for every account and every two adjacent processed windows of the
\* produced cells (month to next month, week to next week), a later cell whose
\* anchor source is 'rollforward' or 'initial' begins at the earlier cell's
\* ending balance.
C2_RollForwardContinuity ==
    LET views == CellViews
    IN  \A v2 \in views :
            v2.anchor.source \in {"rollforward", "initial"} =>
                \A v1 \in views :
                    Adjacent(views, v1, v2) => v2.beginningBalance = v1.balance

\* C2 restricted to month lists without a repeated identifier (the part of
\* C2 that the code keeps).
C2_ContinuityWithoutRepeatedMonth ==
    NoRepeatedMonth => C2_RollForwardContinuity

\* C3: buildForecast returns a result for every input of the model (all have
\* well-formed months and timestamps); it raises no continuity or
\* reconciliation failure.
C3_BuildForecastNeverRaises ==
    pc = "done" => forecast.status = "returned"

\* C4: the monthly cells of the literal scenario.
C4_SampleMonthlyCells ==
    (params = sampleParams /\ pc # "ready") =>
        LET opJan == endingBalances[Jan]["operating"]
            opFeb == endingBalances[Feb]["operating"]
            prJan == endingBalances[Jan]["profit"]
            prFeb == endingBalances[Feb]["profit"]
        IN  /\ opJan.beginningBalance = 1480 /\ opJan.netAfterAnchor = -220
            /\ opJan.balance = 1260 /\ opJan.anchor.source = "checkpoint"
            /\ opJan.anchor.isInterim = TRUE
            /\ opFeb.beginningBalance = 1260 /\ opFeb.netAfterAnchor = -60
            /\ opFeb.balance = 1200 /\ opFeb.anchor.source = "rollforward"
            /\ opFeb.anchor.isInterim = FALSE
            /\ prJan.beginningBalance = 300 /\ prJan.balance = 325
            /\ prJan.anchor.source = "rollforward" /\ prJan.anchor.isInterim = FALSE
            /\ prFeb.beginningBalance = 430 /\ prFeb.netAfterAnchor = 0
            /\ prFeb.balance = 430 /\ prFeb.anchor.source = "checkpoint"
            /\ prFeb.anchor.isInterim = TRUE

\* C4 witness: computeEndingBalances has run on the literal scenario.
C4_Witness ==
    /\ params = sampleParams
    /\ pc = "monthly"
    /\ DOMAIN endingBalances = {Jan, Feb}

\* the occurrences (by position) the claim counts for a cell
CountedOccurrences(v) ==
    {i \in 1..Len(params.occurrences) :
        LET occ == params.occurrences[i]
            ts  == toUtcDate(occ.timestamp)
        IN  /\ occ.accountSlug = v.account
            /\ ts >= v.start
            /\ ts < v.end
            /\ IF v.anchor.source = "checkpoint"
               THEN ts > toUtcDate(v.anchor.timestamp)
               ELSE ts >= v.start}

\* C5: netAfterAnchor of every monthly and weekly cell is the sum of the
\* account's occurrences in the window that are strictly after a checkpoint
\* anchor, or at or after the window start when no checkpoint anchors it.
C5_NetAfterAnchor ==
    \A v \in CellViews : v.netAfterAnchor = SumOfOccurrences(CountedOccurrences(v))

\* C5 witness: a checkpoint-anchored cell with an occurrence of its account at
\* exactly the checkpoint instant.
C5_Witness ==
    /\ \E v \in CellViews :
          /\ v.anchor.source = "checkpoint"
          /\ \E i \in 1..Len(params.occurrences) :
                /\ params.occurrences[i].accountSlug = v.account
                /\ params.occurrences[i].timestamp = v.anchor.timestamp
    /\ pc = "weekly"

\* C6: isInterim is true exactly when the anchor is a checkpoint whose instant
\* is strictly after the start of the cell's window.
C6_InterimFlag ==
    \A v \in CellViews :
        v.anchor.isInterim =
            (v.anchor.source = "checkpoint" /\ toUtcDate(v.anchor.timestamp) > v.start)

\* C6 witness: a checkpoint exactly at the start of a week that is not the
\* start of the month: interim for the month, not interim for the week.
C6_Witness ==
    \E v \in CellViews : \E w \in CellViews :
        /\ v.kind = "month" /\ w.kind = "week"
        /\ v.anchor.source = "checkpoint" /\ w.anchor.source = "checkpoint"
        /\ v.anchor.checkpointId = w.anchor.checkpointId
        /\ v.anchor.isInterim /\ ~w.anchor.isInterim

\* the window processed first: the first month (and its first week) of the
\* sorted list
FirstProcessed(v) ==
    \A ym \in MonthSet : v.start <= startOfMonth(ym)

\* the month of the cell is listed more than once
MonthRepeated(v) ==
    Cardinality({i \in 1..Len(params.months) : params.months[i] = v.ym}) > 1

\* the cell's account has no checkpoint in the window and no prior balance
NoCheckpointNoPrior(v) ==
    /\ CheckpointsIn(v) = {}
    /\ v.account \notin DOMAIN params.priorEndingBalances

\* C7 as stated: every such cell, of any window, is 'initial' and begins at 0.
C7_InitialInEveryWindow ==
    \A v \in CellViews :
        NoCheckpointNoPrior(v) => (v.anchor.source = "initial" /\ v.beginningBalance = 0)

\* C7 amended: such a cell is 'initial' with beginningBalance 0 when its window
\* is the first one processed and its month is listed once; in every other
\* window it is 'rollforward'.
C7_InitialOnlyInFirstWindow ==
    \A v \in CellViews :
        NoCheckpointNoPrior(v) =>
            IF FirstProcessed(v) /\ ~MonthRepeated(v)
            THEN v.anchor.source = "initial" /\ v.beginningBalance = 0
            ELSE v.anchor.source = "rollforward"

\* C7 witness: an account without prior balance and without checkpoints, with
\* activity, in its first month and in a later one.
C7_Witness ==
    /\ pc = "weekly"
    /\ \E v \in CellViews : \E w \in CellViews :
          /\ v.kind = "month" /\ w.kind = "month" /\ v.account = w.account
          /\ NoCheckpointNoPrior(v) /\ NoCheckpointNoPrior(w)
          /\ FirstProcessed(v) /\ ~FirstProcessed(w)
          /\ v.anchor.source = "initial" /\ v.balance # 0

\* the checkpoint (by position) the claim selects among those of the window
SelectedCheckpoint(v) ==
    CHOOSE k \in CheckpointsIn(v) :
        \A j \in CheckpointsIn(v) :
            LET tj == toUtcDate(params.checkpoints[j].timestamp)
                tk == toUtcDate(params.checkpoints[k].timestamp)
            IN  tj < tk \/ (tj = tk /\ j <= k)

\* C8: a cell with checkpoints in its window is anchored on the one with the
\* latest timestamp, the last supplied among equals, and carries its balance,
\* timestamp and id; checkpoints outside [start, end) play no part.
C8_LatestCheckpointAnchors ==
    \A v \in CellViews :
        CheckpointsIn(v) # {} =>
            LET cp == params.checkpoints[SelectedCheckpoint(v)]
            IN  /\ v.anchor.source = "checkpoint"
                /\ v.anchor.balance = cp.balance
                /\ v.anchor.timestamp = cp.timestamp
                /\ v.anchor.checkpointId = cp.id

\* C8 witness: two checkpoints of one account at the same instant in a window.
C8_Witness ==
    /\ pc = "weekly"
    /\ \E v \in CellViews : \E i \in CheckpointsIn(v) : \E j \in CheckpointsIn(v) :
          /\ i < j
          /\ params.checkpoints[i].timestamp = params.checkpoints[j].timestamp
          /\ v.anchor.checkpointId = params.checkpoints[j].id

\* C9: when the walk of a month ends, its windows partition the month: the
\* first starts at the month start, each ends where the next starts, the last
\* ends at the month's exclusive end, and none is empty.
C9_WeeksPartitionMonth ==
    WalkDone =>
        /\ Len(weeks) > 0
        /\ weeks[1].start = startOfMonth(weekYm)
        /\ weeks[Len(weeks)].end = monthEndExclusive(weekYm)
        /\ \A i \in 1..Len(weeks) : weeks[i].start < weeks[i].end
        /\ \A i \in 1..(Len(weeks) - 1) : weeks[i].end = weeks[i + 1].start
        /\ weeks = computeWeeksInMonth(weekYm)

\* C9 witness: the walk of a month that ends on another day than Sunday has
\* ended, its last week clipped to the month boundary.
C9_Witness ==
    /\ WalkDone
    /\ Len(weeks) > 1
    /\ getUTCDay(monthEndExclusive(weekYm)) # 1
    /\ weeks[Len(weeks)].end - weeks[Len(weeks)].start < 7 * DayLength

\* C10: a forecast that buildForecast returns is verified: per account every
\* monthly cell begins at the previous month's ending balance, every weekly
\* cell at the previous week's, whatever the anchor source, and each month's
\* last weekly ending balance is the monthly one.
C10_ReturnedForecastIsVerified ==
    (pc = "done" /\ forecast.status = "returned") =>
        LET views == MonthlyViews(forecast.endingBalances)
                     \cup WeeklyViews(forecast.weeklyBalances)
        IN  /\ \A v1 \in views : \A v2 \in views :
                  Adjacent(views, v1, v2) => v2.beginningBalance = v1.balance
            /\ \A ym \in DOMAIN forecast.endingBalances :
                  \A a \in DOMAIN forecast.endingBalances[ym] :
                      LET wm == forecast.weeklyBalances[ym]
                      IN  wm[LastWeekKey(wm)][a].balance
                              = forecast.endingBalances[ym][a].balance

\* C10 witness: a returned forecast over two months in which a later month is
\* anchored on a checkpoint.
C10_Witness ==
    /\ pc = "done"
    /\ forecast.status = "returned"
    /\ \E v \in MonthlyViews(forecast.endingBalances) :
          /\ v.anchor.source = "checkpoint"
          /\ \E ym \in MonthSet : startOfMonth(ym) < v.start

\* the identifier denotes a year/month pair: both parts are numbers and the
\* month number is one of 1..12
ValidYearMonth(ym) ==
    /\ ym.year \notin {NaN, Undefined}
    /\ ym.month \in 1..12

\* C11: building the window of an identifier that does not denote a valid
\* year/month pair (month number outside 1..12, or a part missing or not a
\* number) fails with the invalid-identifier error and produces no window.
C11_InvalidIdentifierThrows ==
    (pc = "windowed" /\ ~ValidYearMonth(weekYm)) =>
        (window.status = "threw" /\ window.error = "Invalid month identifier")

\* C11, the part the code keeps: the window is refused exactly when a part is
\* zero, missing or not a number.
C11_ThrowsOnFalsyPart ==
    pc = "windowed" =>
        (window.status = "threw") =
            (weekYm.year \in {0, NaN} \/ weekYm.month \in {0, NaN, Undefined})

\* month 13 yields the window of January of the next year
C11_Month13Window ==
    /\ pc = "windowed"
    /\ weekYm = [year |-> 2025, month |-> 13]
    /\ window.status = "built"
    /\ toIsoDate(window.start) = <<2026, 1, 1>>
    /\ toIsoDate(window.end) = <<2026, 2, 1>>

\* the months of the input, each identifier once
MonthsOnce == sortedMonthKeys(MonthSet)

\* C12: the monthly and weekly cells computed for a months list are those
\* computed for the list with every identifier once; a repeated month is not
\* processed a second time against the running balance.
C12_RepeatedMonthSameCells ==
    /\ pc # "ready" =>
          endingBalances = computeEndingBalances(MonthsOnce, params.occurrences,
                               params.priorEndingBalances, params.checkpoints)
    /\ pc \in {"weekly", "done"} =>
          weeklyBalances = computeWeeklyBalances(MonthsOnce, params.occurrences,
                               params.priorEndingBalances, params.checkpoints)

\* C12, the part the code keeps: a list without a repeated identifier is
\* processed in sorted order, whatever the order it is supplied in.
C12_OrderOfMonthsIrrelevant ==
    (NoRepeatedMonth /\ pc # "ready") =>
        endingBalances = computeEndingBalances(MonthsOnce, params.occurrences,
                             params.priorEndingBalances, params.checkpoints)

\* the accounts named by the occurrences, the checkpoints and the prior map
NamedAccounts ==
    {params.occurrences[i].accountSlug : i \in 1..Len(params.occurrences)}
    \cup {params.checkpoints[i].accountSlug : i \in 1..Len(params.checkpoints)}
    \cup DOMAIN params.priorEndingBalances

\* the position of an account slug in ascending (lexicographic) order
AccountRank(a) == CHOOSE i \in 1..Len(AccountOrder) : AccountOrder[i] = a

WeekKeysOf(ym) == {w.weekKey : w \in Range(computeWeeksInMonth(ym))}

\* C13: the account list of a returned forecast is strictly ascending (so
\* duplicate-free) and lists exactly the accounts named by occurrences,
\* checkpoints and the prior-balance map; every processed month and every
\* week of it holds one cell, filed under its own account, for each of them.
C13_AccountsSortedUnionOneCellEach ==
    /\ (pc = "done" /\ forecast.status = "returned") =>
          /\ Range(forecast.accounts) = NamedAccounts
          /\ \A i \in 1..(Len(forecast.accounts) - 1) :
                AccountRank(forecast.accounts[i]) < AccountRank(forecast.accounts[i + 1])
    /\ pc # "ready" =>
          /\ DOMAIN endingBalances = MonthSet
          /\ \A ym \in MonthSet :
                /\ DOMAIN endingBalances[ym] = NamedAccounts
                /\ \A a \in NamedAccounts :
                      /\ endingBalances[ym][a].accountSlug = a
                      /\ endingBalances[ym][a].ym = ym
    /\ pc \in {"weekly", "done"} =>
          /\ DOMAIN weeklyBalances = MonthSet
          /\ \A ym \in MonthSet :
                /\ DOMAIN weeklyBalances[ym] = WeekKeysOf(ym)
                /\ \A wk \in WeekKeysOf(ym) :
                      /\ DOMAIN weeklyBalances[ym][wk] = NamedAccounts
                      /\ \A a \in NamedAccounts :
                            /\ weeklyBalances[ym][wk][a].accountSlug = a
                            /\ weeklyBalances[ym][wk][a].weekKey = wk

\* C13 witness: a returned forecast over two accounts, one of them named by
\* the prior-balance map only, with no occurrence and no checkpoint at all.
C13_Witness ==
    /\ pc = "done"
    /\ forecast.status = "returned"
    /\ Len(forecast.accounts) = 2
    /\ \E a \in Range(forecast.accounts) :
          /\ a \in DOMAIN params.priorEndingBalances
          /\ \A i \in 1..Len(params.occurrences) : params.occurrences[i].accountSlug # a
          /\ \A i \in 1..Len(params.checkpoints) : params.checkpoints[i].accountSlug # a
          /\ \A ym \in MonthSet : forecast.endingBalances[ym][a].netAfterAnchor = 0

\* the first week window of the earliest listed month
FirstWeekKey(ym) == computeWeeksInMonth(ym)[1].weekKey

EarliestMonth == MonthsOnce[1]

\* C14: no call changes the caller's priorEndingBalances map, and in a
\* forecast that buildForecast returns the weekly pass starts from the same
\* seeds as the monthly pass: the first weekly and the first monthly cell of
\* an account that rolls forward both begin at the caller's prior balance.
C14_PriorBalancesDoNotLeak ==
    [][/\ params'.priorEndingBalances = params.priorEndingBalances
       /\ (pc' = "done" /\ forecast'.status = "returned") =>
             \A a \in DOMAIN params.priorEndingBalances :
                LET m == forecast'.endingBalances[EarliestMonth][a]
                    w == forecast'.weeklyBalances[EarliestMonth][FirstWeekKey(EarliestMonth)][a]
                IN  /\ m.anchor.source = "rollforward" =>
                          m.beginningBalance = params.priorEndingBalances[a]
                    /\ w.anchor.source = "rollforward" =>
                          w.beginningBalance = params.priorEndingBalances[a]]_vars

\* C14 witness: a forecast was returned for an account whose prior balance
\* differs from the ending balance the monthly pass computed for it.
C14_Witness ==
    /\ pc = "done"
    /\ forecast.status = "returned"
    /\ \E a \in DOMAIN params.priorEndingBalances :
          /\ forecast.endingBalances[EarliestMonth][a].balance # params.priorEndingBalances[a]
          /\ forecast.weeklyBalances[EarliestMonth][FirstWeekKey(EarliestMonth)][a].anchor.source
                = "rollforward"

\* C15: the weekKey of every window of the walk is the date immediately
\* before the window's exclusive end, and that date is a Sunday, also for the
\* last week of the month.
C15_WeekKeyIsSunday ==
    \A i \in 1..Len(weeks) :
        /\ weeks[i].weekKey = toIsoDate(weeks[i].end - DayLength)
        /\ getUTCDay(weeks[i].end - DayLength) = 0

\* C16: no window of a finished walk spans more than 7 days; every window but
\* the first and the last spans exactly 7 days.
C16_NoWeekLongerThanSevenDays ==
    WalkDone =>
        /\ \A i \in 1..Len(weeks) : weeks[i].end - weeks[i].start <= 7 * DayLength
        /\ \A i \in 2..(Len(weeks) - 1) : weeks[i].end - weeks[i].start = 7 * DayLength

\* C18: the cursor strictly increases at every iteration, the walk of every
\* month reaches the month's exclusive end, and it has then produced between
\* 4 and 6 windows.
C18_WalkTerminates ==
    /\ [][cursor' > cursor]_vars
    /\ [](WalkDone => (cursor = monthEndExclusive(weekYm) /\ Len(weeks) \in 4..6))
    /\ <>WalkDone

\* C18 witness: finished walks of 4 windows and of 6 windows exist; this one
\* has 6 (a month of 31 days that starts on a Saturday).
C18_Witness ==
    /\ WalkDone
    /\ Len(weeks) = 6
    /\ getUTCDay(startOfMonth(weekYm)) = 6

\* the running balance of every account of the cells is the cell's balance
RunningEquals(priorBalances, cells) ==
    \A a \in DOMAIN cells :
        /\ a \in DOMAIN priorBalances
        /\ priorBalances[a] = cells[a].balance

\* position k is the last one at which its month stands in the sorted list
LastPassOf(orderedMonths, k) ==
    \A j \in (k + 1)..Len(orderedMonths) : orderedMonths[j] # orderedMonths[k]

InputAccounts ==
    listAccounts(params.occurrences, params.checkpoints, params.priorEndingBalances)

\* the loop state r after the window of month ym: the running balances are
\* the balances of the cells just written, which are the produced cells
\* when no later pass over the same month replaces them
MonthStepAgrees(r, ym, kept) ==
    /\ RunningEquals(r.priorBalances, r.result[ym])
    /\ kept => r.result[ym] = endingBalances[ym]

\* the same after the window of the week with key wk
WeekStepAgrees(r, ym, wk, kept) ==
    /\ RunningEquals(r.priorBalances, r.result[wk])
    /\ kept => r.result[wk] = weeklyBalances[ym][wk]

\* the monthly loop run one month at a time from its k-th month on
RECURSIVE MonthlyPassFollows(_, _, _, _)
MonthlyPassFollows(orderedMonths, k, priorBalances, monthlyResult) ==
    \/ k > Len(orderedMonths)
    \/ LET r == monthLoop(SubSeq(orderedMonths, 1, k), k, InputAccounts,
                          params.occurrences, params.checkpoints,
                          priorBalances, monthlyResult)
       IN  /\ MonthStepAgrees(r, orderedMonths[k], LastPassOf(orderedMonths, k))
           /\ MonthlyPassFollows(orderedMonths, k + 1, r.priorBalances, r.result)

\* the week loop of one month run one week at a time from its j-th week on;
\* the running balances it ends with
RECURSIVE WeekPassFollows(_, _, _, _, _, _)
WeekPassFollows(ym, ws, j, kept, priorBalances, monthWeeks) ==
    IF j > Len(ws) THEN [ok |-> TRUE, priorBalances |-> priorBalances]
    ELSE LET r == weekLoop(ym, SubSeq(ws, 1, j), j, InputAccounts,
                           params.occurrences, params.checkpoints,
                           priorBalances, monthWeeks)
         IN  IF WeekStepAgrees(r, ym, ws[j].weekKey, kept)
             THEN WeekPassFollows(ym, ws, j + 1, kept, r.priorBalances, r.result)
             ELSE [ok |-> FALSE, priorBalances |-> r.priorBalances]

\* the weekly pass run one week at a time from its k-th month on
RECURSIVE WeeklyPassFollows(_, _, _)
WeeklyPassFollows(orderedMonths, k, priorBalances) ==
    \/ k > Len(orderedMonths)
    \/ LET m == WeekPassFollows(orderedMonths[k], computeWeeksInMonth(orderedMonths[k]), 1,
                                LastPassOf(orderedMonths, k), priorBalances, EmptyMap)
       IN  /\ m.ok
           /\ WeeklyPassFollows(orderedMonths, k + 1, m.priorBalances)

CellAddsUp(cell) ==
    /\ cell.beginningBalance = cell.anchor.balance
    /\ cell.balance = cell.anchor.balance + cell.netAfterAnchor

\* C17: every produced monthly and weekly cell has beginningBalance =
\* anchor.balance and balance = anchor.balance + netAfterAnchor, and when a
\* pass has processed a window the running balance of each account is the
\* balance of the cell it wrote for that window.
C17_CellArithmeticAndRunningBalance ==
    /\ \A ym \in DOMAIN endingBalances : \A a \in DOMAIN endingBalances[ym] :
          CellAddsUp(endingBalances[ym][a])
    /\ \A ym \in DOMAIN weeklyBalances : \A wk \in DOMAIN weeklyBalances[ym] :
          \A a \in DOMAIN weeklyBalances[ym][wk] : CellAddsUp(weeklyBalances[ym][wk][a])
    /\ pc = "monthly" =>
          MonthlyPassFollows(sortMonths(params.months), 1,
                             clonePriorBalances(params.priorEndingBalances), EmptyMap)
    /\ pc = "weekly" =>
          WeeklyPassFollows(sortMonths(params.months), 1,
                            clonePriorBalances(params.priorEndingBalances))

\* C17 witness: both passes have run on a month list with a repeated month,
\* and a monthly cell is anchored on an interim checkpoint with activity of
\* the account after it.
C17_Witness ==
    /\ pc = "weekly"
    /\ ~NoRepeatedMonth
    /\ \E v \in MonthlyViews(endingBalances) :
          /\ v.anchor.isInterim
          /\ v.netAfterAnchor # 0
          /\ v.balance # v.beginningBalance

====
